---- MODULE Spec2Model ----
(***************************************************************************)
(* Model of the page loader of src/src/page-loader.js (lines 1-212): the   *)
(* promise chain of downloadPage, the scan and the concurrent Listr tasks  *)
(* of processHtmlWithProgress, downloadResource and generateFileName.      *)
(*                                                                         *)
(* Strings are sequences of one-character strings, so that the regular     *)
(* expressions and string tests of the code are computed, not assumed.     *)
(* Paths are sequences of names below the output directory.                *)
(***************************************************************************)
EXTENDS Integers, Sequences, FiniteSets, Bags, TLC

(***************************************************************************)
(* Bounds of the model.                                                    *)
(***************************************************************************)
\* the longest page body, in elements
MaxElems == 2
\* the longest path of a URL given to generateFileName alone, in segments
MaxSegs == 2
\* the longest body given to the scan alone, in elements
MaxScan == 3

(***************************************************************************)
(* String helpers (String.prototype methods used by the code).             *)
(***************************************************************************)
Lower == {"a","b","c","d","e","f","g","h","i","j","k","l","m",
          "n","o","p","q","r","s","t","u","v","w","x","y","z"}
Upper == {"A","B","C","D","E","F","G","H","I","J","K","L","M",
          "N","O","P","Q","R","S","T","U","V","W","X","Y","Z"}
Digit == {"0","1","2","3","4","5","6","7","8","9"}
\* the character class [a-z0-9] under the /i flag
Alnum == Lower \cup Upper \cup Digit

\* s.startsWith(p)
StartsWith(s, p) == Len(s) >= Len(p) /\ SubSeq(s, 1, Len(p)) = p
\* s.endsWith(p)
EndsWith(s, p) == Len(s) >= Len(p) /\ SubSeq(s, Len(s) - Len(p) + 1, Len(s)) = p
\* s.slice(i - 1): the suffix of s from position i (1-based)
From(s, i) == SubSeq(s, i, Len(s))
\* s.indexOf(p) + 1: the first position where p occurs in s, 0 when it does not
IndexOf(s, p) ==
  LET hits == {i \in 1..(Len(s) - Len(p) + 1) : SubSeq(s, i, i + Len(p) - 1) = p}
  IN  IF hits = {} THEN 0 ELSE CHOOSE i \in hits : \A j \in hits : i <= j
\* s.includes(p)
Includes(s, p) == IndexOf(s, p) # 0
\* the first position of s holding a character of set cs, Len(s) + 1 when none
FirstOf(s, cs) ==
  LET hits == {i \in 1..Len(s) : s[i] \in cs}
  IN  IF hits = {} THEN Len(s) + 1 ELSE CHOOSE i \in hits : \A j \in hits : i <= j
\* s.replace(/c/g, d) for single characters c and d
ReplaceAll(s, c, d) == [i \in 1..Len(s) |-> IF s[i] = c THEN d ELSE s[i]]
\* s.replace(/-+$/, ''): drop the trailing run of hyphens
RECURSIVE StripTrailingHyphens(_)
StripTrailingHyphens(s) ==
  IF Len(s) > 0 /\ s[Len(s)] = "-"
  THEN StripTrailingHyphens(SubSeq(s, 1, Len(s) - 1))
  ELSE s
\* s.replace(p, r) with a string pattern: the first occurrence only
ReplaceFirst(s, p, r) ==
  LET i == IndexOf(s, p)
  IN  IF i = 0 THEN s
      ELSE SubSeq(s, 1, i - 1) \o r \o From(s, i + Len(p))

DotHtml == <<".", "h", "t", "m", "l">>
FilesSuffix == <<"_", "f", "i", "l", "e", "s">>
Https == <<"h", "t", "t", "p", "s", ":", "/", "/">>

(***************************************************************************)
(* URL (the WHATWG URL class of node:url), for the inputs of the model:    *)
(* https URLs  https://host[/path][?query]  and references relative to     *)
(* them. No input has dot segments, a port, credentials or a fragment.     *)
(***************************************************************************)
\* characters a host may hold in the model's inputs
HostChars == Lower \cup Digit \cup {".", "-"}
\* the percent-encoding of the path and query: a space becomes %20
RECURSIVE Encode(_)
Encode(s) ==
  IF s = <<>> THEN <<>>
  ELSE (IF s[1] = " " THEN <<"%", "2", "0">> ELSE <<s[1]>>) \o Encode(Tail(s))

InvalidURL == [ok |-> FALSE, hostname |-> <<>>, pathname |-> <<>>, search |-> <<>>]

\* the URL made of a host and of the text after it (path and query)
MakeURL(host, rest) ==
  LET q == FirstOf(rest, {"?"})
      p == SubSeq(rest, 1, q - 1)
  IN  IF host = <<>> \/ \E i \in 1..Len(host) : host[i] \notin HostChars
      THEN InvalidURL
      ELSE [ok |-> TRUE,
            hostname |-> host,
            pathname |-> IF p = <<>> THEN <<"/">> ELSE Encode(p),
            search |-> Encode(From(rest, q))]

\* new URL(s): throws (ok = FALSE) when s is no absolute URL
ParseURL(s) ==
  IF ~StartsWith(s, Https) THEN InvalidURL
  ELSE LET r == From(s, Len(Https) + 1)
           h == FirstOf(r, {"/", "?"})
       IN  MakeURL(SubSeq(r, 1, h - 1), From(r, h))

\* the directory of a path: up to and including its last slash
RECURSIVE DirOf(_)
DirOf(p) ==
  IF p = <<>> \/ p[Len(p)] = "/" THEN p ELSE DirOf(SubSeq(p, 1, Len(p) - 1))

\* new URL(ref, base), base a parsed URL: an absolute reference, a
\* protocol-relative one (//host/path), a path-absolute one (/path), a
\* query-only one (?q) or a path-relative one
ResolveURL(ref, base) ==
  IF StartsWith(ref, Https) THEN ParseURL(ref)
  ELSE IF StartsWith(ref, <<"/", "/">>)
       THEN ParseURL(<<"h", "t", "t", "p", "s", ":">> \o ref)
  ELSE IF StartsWith(ref, <<"/">>) THEN MakeURL(base.hostname, ref)
  ELSE IF ref = <<>> THEN base
  ELSE IF StartsWith(ref, <<"?">>)
       THEN MakeURL(base.hostname, base.pathname \o ref)
  ELSE MakeURL(base.hostname, DirOf(base.pathname) \o ref)

\* url.toString()
Href(u) == Https \o u.hostname \o u.pathname \o u.search

(***************************************************************************)
(* isLocalResource and generateFileName.                                   *)
(***************************************************************************)
\* faulty variant: every reference counts as local
isLocalResourceAny(baseUrl, resourceUrl) == TRUE
\* faulty variant: a subdomain of the host of the page counts as local
isLocalResourceSubdomains(baseUrl, resourceUrl) ==
  LET base == ParseURL(baseUrl)
  IN  IF ~base.ok THEN FALSE
      ELSE LET resource == ResolveURL(resourceUrl, base)
           IN  resource.ok /\ EndsWith(resource.hostname, base.hostname)

\* isLocalResource(baseUrl, resourceUrl): both constructors are inside the
\* try block, so a URL that does not parse gives false
isLocalResource(baseUrl, resourceUrl) ==
  LET base == ParseURL(baseUrl)
  IN  IF ~base.ok THEN FALSE
      ELSE LET resource == ResolveURL(resourceUrl, base)
           IN  resource.ok /\ resource.hostname = base.hostname

\* url.pathname.match(/\.([a-z0-9]+)$/i): the captured extension, <<>> when
\* the pattern does not match
ExtensionMatch(pathname) ==
  LET dots == {i \in 1..Len(pathname) : pathname[i] = "."}
  IN  IF dots = {} THEN <<>>
      ELSE LET d == CHOOSE i \in dots : \A j \in dots : j <= i
               e == From(pathname, d + 1)
           IN  IF e # <<>> /\ \A i \in 1..Len(e) : e[i] \in Alnum THEN e ELSE <<>>

\* faulty variant: the slashes of the path are kept
BaseNameKeepsSlashes(u) == ReplaceAll(u.hostname, ".", "-") \o u.pathname
\* the name built at lines 42-44: the replace of trailing hyphens binds to
\* the path only
BaseName(u) ==
  ReplaceAll(u.hostname, ".", "-")
    \o StripTrailingHyphens(ReplaceAll(u.pathname, "/", "-"))

\* faulty variant: the page role appends .html whatever the name ends with
generateFileNameAlwaysAppends(urlString, isResource) ==
  LET u == ParseURL(urlString)
      name == BaseName(u)
      extension == ExtensionMatch(u.pathname)
  IN  IF ~isResource
      THEN name \o DotHtml
      ELSE IF extension # <<>> THEN name \o <<".">> \o extension
           ELSE name \o DotHtml

\* generateFileName(urlString, isResource), urlString a URL that parses
generateFileName(urlString, isResource) ==
  LET u == ParseURL(urlString)
      name == BaseName(u)
      extension == ExtensionMatch(u.pathname)
  IN  IF ~isResource
      THEN (IF EndsWith(name, DotHtml) THEN name ELSE name \o DotHtml)
      ELSE IF extension # <<>> THEN name \o <<".">> \o extension
      ELSE name \o DotHtml

(***************************************************************************)
(* The inputs of a run: the page URL, the body the server sends for it.    *)
(***************************************************************************)
UrlCourses == Https \o <<"a", ".", "i", "o", "/", "c">>
UrlPageHtml == Https \o <<"a", ".", "i", "o", "/", "p", ".", "h", "t", "m", "l">>
\* a page URL that new URL() does not parse
UrlInvalid == <<"i", "n", "v", "a", "l", "i", "d", "-", "u", "r", "l">>
PageUrls == {UrlCourses, UrlPageHtml, UrlInvalid}

\* an element of the body: its tag, its rel attribute and the value of the
\* attribute that holds its reference (src for img and script, href else)
Elem(tag, rel, value) == [tag |-> tag, rel |-> rel, value |-> value]
ImgLocal == Elem("img", "", <<"/", "a", ".", "p", "n", "g">>)
ImgRemote == Elem("img", "", Https \o <<"b", ".", "i", "o", "/", "a", ".", "p", "n", "g">>)
LinkCss == Elem("link", "stylesheet", <<"s", ".", "c", "s", "s">>)
AnchorHtml == Elem("a", "", <<"/", "p", ".", "h", "t", "m", "l">>)
ElementPool == {ImgLocal, ImgRemote, LinkCss, AnchorHtml}

\* the page and the image of the fixture test: https://ru.hexlet.io/courses
\* and <img src="/assets/professions/nodejs.png">
HexletHost == <<"r", "u", ".", "h", "e", "x", "l", "e", "t", ".", "i", "o">>
UrlHexlet == Https \o HexletHost \o <<"/", "c", "o", "u", "r", "s", "e", "s">>
HexletImg ==
  Elem("img", "",
    <<"/", "a", "s", "s", "e", "t", "s", "/", "p", "r", "o", "f", "e", "s",
      "s", "i", "o", "n", "s", "/", "n", "o", "d", "e", "j", "s", ".", "p",
      "n", "g">>)

RECURSIVE SeqsUpTo(_, _)
\* the sequences over set S of length at most n
SeqsUpTo(S, n) ==
  IF n = 0 THEN {<<>>}
  ELSE LET shorter == SeqsUpTo(S, n - 1)
       IN  shorter \cup {Append(s, x) : s \in {t \in shorter : Len(t) = n - 1}, x \in S}
\* the bodies of the fixture scenario
HexletBodies == SeqsUpTo({HexletImg, ImgRemote}, MaxElems)
Bodies == SeqsUpTo(ElementPool, MaxElems)

(***************************************************************************)
(* The scan of processHtmlWithProgress (lines 93-124).                     *)
(***************************************************************************)
\* tagsToProcess: the four selectors, in the order of the array
Selectors == <<"img[src]", "link[href][rel=stylesheet]", "script[src]", "a[href.html]">>
AttrOf(k) == IF k \in {1, 3} THEN "src" ELSE "href"
\* $(selector) matches element e
Matches(k, e) ==
  CASE k = 1 -> e.tag = "img"
    [] k = 2 -> e.tag = "link" /\ e.rel = "stylesheet"
    [] k = 3 -> e.tag = "script"
    [] k = 4 -> e.tag = "a" /\ (EndsWith(e.value, DotHtml)
                                 \/ Includes(e.value, DotHtml \o <<"?">>))

Resource(resourceUrl, element, attr, isMainPage) ==
  [url |-> resourceUrl, element |-> element, attr |-> attr, isMainPage |-> isMainPage]

RECURSIVE ScanFrom(_, _, _, _)
\* $(selector).each(...) from element i on: document order, local ones only
ScanFrom(htmlBody, baseUrl, k, i) ==
  IF i > Len(htmlBody) THEN <<>>
  ELSE (IF Matches(k, htmlBody[i]) /\ htmlBody[i].value # <<>>
            /\ isLocalResource(baseUrl, htmlBody[i].value)
        THEN <<Resource(htmlBody[i].value, i, AttrOf(k), FALSE)>>
        ELSE <<>>)
       \o ScanFrom(htmlBody, baseUrl, k, i + 1)

\* faulty variant: the page itself is a resource whatever its URL
MainPageResourceAlways(baseUrl) == <<Resource(baseUrl, 0, "", TRUE)>>
\* lines 103-111: the page itself is a resource when its URL ends with .html
MainPageResource(baseUrl) ==
  IF EndsWith(baseUrl, DotHtml) THEN <<Resource(baseUrl, 0, "", TRUE)>> ELSE <<>>

\* faulty variant: one pass over the document, the four selectors together
ScanResourcesDocumentOrder(htmlBody, baseUrl) ==
  LET RECURSIVE pass(_)
      pass(i) ==
        IF i > Len(htmlBody) THEN <<>>
        ELSE LET ks == {k \in 1..4 : Matches(k, htmlBody[i])}
             IN  (IF ks # {} /\ htmlBody[i].value # <<>> /\ isLocalResource(baseUrl, htmlBody[i].value)
                  THEN <<Resource(htmlBody[i].value, i, AttrOf(CHOOSE k \in ks : TRUE), FALSE)>>
                  ELSE <<>>) \o pass(i + 1)
  IN  MainPageResource(baseUrl) \o pass(1)
\* the resources array after lines 103-124
ScanResources(htmlBody, baseUrl) ==
  MainPageResource(baseUrl)
    \o ScanFrom(htmlBody, baseUrl, 1, 1) \o ScanFrom(htmlBody, baseUrl, 2, 1)
    \o ScanFrom(htmlBody, baseUrl, 3, 1) \o ScanFrom(htmlBody, baseUrl, 4, 1)

(***************************************************************************)
(* Names and paths of a run (lines 64-68 and 173-177).                     *)
(***************************************************************************)
\* new URL(resourceUrl, baseUrl).toString()
AbsoluteUrl(baseUrl, resourceUrl) == Href(ResolveURL(resourceUrl, ParseURL(baseUrl)))
\* the file name downloadResource gives a resource
ResourceFileName(baseUrl, resourceUrl) ==
  generateFileName(AbsoluteUrl(baseUrl, resourceUrl), TRUE)
PageName(pageUrl) == generateFileName(pageUrl, FALSE)
\* path.basename(resourcesDir)
ResourcesDirName(pageUrl) == ReplaceFirst(PageName(pageUrl), DotHtml, <<>>) \o FilesSuffix
\* faulty variant: the page is put in the resources directory
HtmlFilePathInResourcesDir(pageUrl) == <<ResourcesDirName(pageUrl), PageName(pageUrl)>>
\* paths are relative to outputDir
ResourcesDir(pageUrl) == <<ResourcesDirName(pageUrl)>>
HtmlFilePath(pageUrl) == <<PageName(pageUrl)>>
\* faulty variant: the file is put in the output directory itself
ResourceFilePathInOutputDir(pageUrl, resourceUrl) ==
  <<ResourceFileName(pageUrl, resourceUrl)>>
\* path.join(outputDir, filename) of line 68
ResourceFilePath(pageUrl, resourceUrl) ==
  <<ResourcesDirName(pageUrl), ResourceFileName(pageUrl, resourceUrl)>>
\* faulty variant: the new value is the file name without the directory
NewPathBare(pageUrl, filename) == filename
\* newPath of line 142
NewPath(pageUrl, filename) == ResourcesDirName(pageUrl) \o <<"/">> \o filename

\* the markup the server sends for a linked page: one image
LinkedPageBody == <<Elem("img", "", <<"/", "z", ".", "p", "n", "g">>)>>

\* the pages, the bodies and the references of the runs modelled
RunUrls == {u : u \in PageUrls \cup {UrlHexlet}}
RunBodies == {h : h \in Bodies \cup HexletBodies}
RunRefs ==
  {r : r \in RunUrls \cup {e.value : e \in ElementPool \cup {HexletImg}}
                     \cup {LinkedPageBody[k].value : k \in DOMAIN LinkedPageBody}}
\* what a run computes from its page URL, its body and its references,
\* as functions of them: whether new URL(url) succeeds, the resources
\* array, the paths of lines 173-177 and, per reference, the URL
\* requested, the file name, the file path and, per file name, newPath
UrlParses == [u \in RunUrls |-> ParseURL(u).ok]
ResourcesOf == [u \in RunUrls |-> [h \in RunBodies |-> ScanResources(h, u)]]
ResourcesDirOf == [u \in RunUrls |-> ResourcesDir(u)]
HtmlFilePathOf == [u \in RunUrls |-> HtmlFilePath(u)]
RequestUrlOf == [u \in RunUrls |-> [r \in RunRefs |-> AbsoluteUrl(u, r)]]
FileNameOf == [u \in RunUrls |-> [r \in RunRefs |-> ResourceFileName(u, r)]]
FilePathOf == [u \in RunUrls |-> [r \in RunRefs |-> ResourceFilePath(u, r)]]
NewPathOf ==
  [u \in RunUrls |->
     [f \in {FileNameOf[u][r] : r \in RunRefs} \cup {<<>>} |-> NewPath(u, f)]]

(***************************************************************************)
(* What the environment may answer.                                        *)
(***************************************************************************)
\* fs.access(outputDir, W_OK): "OK" or the code of the error
AccessResults == {"OK", "EACCES", "ENOENT", "ENOTDIR"}
\* the final HTTP status of a GET (0: no response, see NetworkErrors)
PageStatuses == {200, 201, 404}
ResourceStatuses == {200, 204, 404}
NetworkErrors == {"ENOTFOUND", "ECONNREFUSED", "ETIMEDOUT"}
\* fs.mkdir(resourcesDir, {recursive: true}): EEXIST when a file has the
\* name, ENOTDIR when outputDir is itself a file (fs.access with W_OK does
\* not ask for a directory)
MkdirResults == {"OK", "EEXIST", "EACCES", "ENOTDIR"}
\* faulty variant: without recursive, a directory that exists is an error
MkdirNotRecursive(exists) == IF exists THEN {"EEXIST"} ELSE MkdirResults
\* with recursive: true a directory that exists is no error
MkdirOutcomes(exists) == IF exists THEN {"OK"} ELSE MkdirResults
WriteResults == {"OK", "ENOSPC"}
\* axios.get(url) for a url that is no absolute URL: the versions of axios
\* that parse it strictly reject at once (ERR_INVALID_URL), those that
\* parse it against http://localhost send the request
InvalidUrlBehaviours == {"throws", "requests"}

\* an error object: its code, the status of its response (0 when it has no
\* response) - error.message is the code for the errors of fs and net
Error(code, status) == [code |-> code, status |-> status]
\* the code axios gives a response that validateStatus refuses
AxiosStatusCode(status) == IF status >= 500 THEN "ERR_BAD_RESPONSE" ELSE "ERR_BAD_REQUEST"

\* faulty variant: every response is accepted
PageValidateStatusAny(status) == TRUE
\* validateStatus of axios.get(url) at line 171: the default of axios
PageValidateStatus(status) == status >= 200 /\ status < 300
\* faulty variant: the default of axios instead of the test of line 72
ValidateStatus2xx(status) == status >= 200 /\ status < 300
\* validateStatus of line 72
ValidateStatus(status) == status = 200

\* faulty variant: the EACCES branch of line 201 is missing
MessageNoEacces(error) ==
  IF error.code = "ENOTFOUND" THEN "Network error: could not resolve host"
  ELSE IF error.status # 0 THEN "Request failed with status"
  ELSE "error.message"
\* lines 198-207: the message of the rejection
Message(error) ==
  IF error.code = "ENOTFOUND" THEN "Network error: could not resolve host"
  ELSE IF error.code = "EACCES" THEN "Output directory is not writable"
  ELSE IF error.status # 0 THEN "Request failed with status"
  ELSE "error.message"

\* a value of JavaScript: undefined, or a string that is a path
Undefined == [type |-> "undefined", path |-> <<>>]
PathString(p) == [type |-> "string", path |-> p]

\* a promise: its state, the value it resolved with, or the name, message
\* and code of the error it rejected with (status: the N of the message
\* "Request failed with status N")
Pending ==
  [state |-> "pending", value |-> Undefined, name |-> "", message |-> "", status |-> 0,
   code |-> ""]
Resolved(v) ==
  [state |-> "resolved", value |-> v, name |-> "", message |-> "", status |-> 0, code |-> ""]
\* line 209: reject(new PageLoaderError(message, error.code)); the class
\* (lines 22-28) gives the code UNKNOWN to an error that has none
Rejected(error) ==
  [state |-> "rejected", value |-> Undefined, name |-> "PageLoaderError",
   message |-> Message(error),
   status |-> IF Message(error) = "Request failed with status" THEN error.status ELSE 0,
   code |-> IF error.code = "" THEN "UNKNOWN" ELSE error.code]

NoOutcome == [settled |-> FALSE, success |-> FALSE, status |-> 0, filename |-> <<>>]
\* what downloadResource resolves with (lines 82 and 87); status is the
\* status the GET ended with, 0 for a network error
Outcome(success, status, filename) ==
  [settled |-> TRUE, success |-> success, status |-> status, filename |-> filename]

(***************************************************************************)
(* State.                                                                  *)
(***************************************************************************)
VARIABLES
  url,            \* argument of downloadPage
  html,           \* the body the server sends for url
  pc,             \* where the promise chain of downloadPage stands
  access,         \* how fs.access settled, "" before
  pageStatus,     \* status of the response to the page GET, 0 before
  dom,            \* $: the elements, with their current attribute values
  resources,      \* the resources array of processHtmlWithProgress
  task,           \* per resource: "waiting", "get", "write" or "done"
  outcome,        \* per resource: what downloadResource resolved with
  requests,       \* the bag of GETs issued: [url, by], by = 0 for downloadPage
  dirs,           \* directories created below outputDir
  files,          \* files written below outputDir
  wrote,          \* who completed a writeFile: resource numbers, 0 for the page
  saved,          \* the markup in the file at htmlFilePath
  processedHtml,  \* what processHtmlWithProgress resolved with
  result,         \* the promise downloadPage returned
  call            \* a call of a function of the module alone: arguments, result

vars == <<call, url, html, pc, access, pageStatus, dom, resources, task, outcome,
          requests, dirs, files, wrote, saved, processedHtml, result>>

io == <<requests, dirs, files, wrote, saved>>
scan == <<dom, resources, task, outcome>>

\* no function was called alone
NoCall == [fn |-> "", args |-> <<>>, returned |-> FALSE, result |-> <<>>]

Init ==
  /\ call = NoCall
  /\ url \in PageUrls
  /\ html \in Bodies
  /\ pc = "access"
  /\ access = ""
  /\ pageStatus = 0
  /\ dom = <<>>
  /\ resources = <<>>
  /\ task = <<>>
  /\ outcome = <<>>
  /\ requests = EmptyBag
  /\ dirs = {}
  /\ files = {}
  /\ wrote = {}
  /\ saved = <<>>
  /\ processedHtml = <<>>
  /\ result = Pending

\* faulty variant: the catch handler swallows the error
RejectSwallowed(error) ==
  /\ result' = Resolved(Undefined)
  /\ pc' = "failed"
\* faulty variant: the error is caught in the middle of the chain, which
\* goes on to write the page
RejectAndPersist(error) ==
  /\ result' = Rejected(error)
  /\ pc' = "persist"
\* the catch handler of lines 196-210
Reject(error) ==
  /\ result' = Rejected(error)
  /\ pc' = "failed"

\* lines 170-171: fs.access settles; then the page is requested
AccessSettled ==
  /\ pc = "access"
  /\ \E r \in AccessResults :
       /\ access' = r
       /\ IF r # "OK"
          THEN /\ Reject(Error(r, 0))
               /\ UNCHANGED requests
          ELSE \E b \in InvalidUrlBehaviours :
                 IF ~UrlParses[url] /\ b = "throws"
                 THEN /\ Reject(Error("ERR_INVALID_URL", 0))
                      /\ UNCHANGED requests
                 ELSE /\ requests' = requests (+) SetToBag({[url |-> url, by |-> 0]})
                      /\ pc' = "pageGet"
                      /\ UNCHANGED result
  /\ UNCHANGED <<call, url, html, pageStatus, scan, dirs, files, wrote, saved, processedHtml>>

\* lines 171-180: the page GET settles; on a response axios accepts, the
\* names are computed and fs.mkdir is called
PageResponse ==
  /\ pc = "pageGet"
  /\ \/ \E s \in PageStatuses :
          /\ pageStatus' = s
          /\ IF ~PageValidateStatus(s) THEN Reject(Error(AxiosStatusCode(s), s))
             ELSE IF ~UrlParses[url]
                  \* line 173: generateFileName throws at new URL(urlString)
                  THEN Reject(Error("ERR_INVALID_URL", 0))
                  ELSE pc' = "mkdir" /\ UNCHANGED result
     \/ \E e \in NetworkErrors :
          /\ Reject(Error(e, 0))
          /\ UNCHANGED pageStatus
  /\ UNCHANGED <<call, url, html, access, scan, io, processedHtml>>

\* faulty variant: the Listr run is started whatever the array holds
NothingToDownloadNever(found) == FALSE
\* line 126: resources.length === 0
NothingToDownload(found) == Len(found) = 0

\* lines 180-183 and 93-147: fs.mkdir settles; processHtmlWithProgress loads
\* the body, scans it and either resolves at once (no resource, lines
\* 126-128, the page then being written, line 187) or runs the Listr tasks
MkdirSettled ==
  /\ pc = "mkdir"
  /\ \E r \in MkdirOutcomes(ResourcesDirOf[url] \in dirs) :
       IF r = "OK"
       THEN LET found == ResourcesOf[url][html]
            IN  /\ dirs' = dirs \cup {ResourcesDirOf[url]}
                /\ dom' = html
                /\ resources' = found
                /\ task' = [i \in 1..Len(found) |-> "waiting"]
                /\ outcome' = [i \in 1..Len(found) |-> NoOutcome]
                /\ IF NothingToDownload(found)
                   THEN processedHtml' = html /\ pc' = "persist"
                   ELSE processedHtml' = processedHtml /\ pc' = "listr"
                /\ UNCHANGED result
       ELSE /\ Reject(Error(r, 0))
            /\ UNCHANGED <<dirs, dom, resources, task, outcome, processedHtml>>
  /\ UNCHANGED <<call, url, html, access, pageStatus, requests, files, wrote, saved>>

\* the task of resource i has settled with outcome o
Settle(i, o) ==
  /\ task' = [task EXCEPT ![i] = "done"]
  /\ outcome' = [outcome EXCEPT ![i] = o]

\* lines 130-139 and 64-73: Listr starts the task of resource i, which
\* calls downloadResource, which issues the GET
StartTask(i) ==
  /\ pc = "listr"
  /\ task[i] = "waiting"
  /\ task' = [task EXCEPT ![i] = "get"]
  /\ requests' = requests (+) SetToBag({[url |-> RequestUrlOf[url][resources[i].url],
                                          by |-> i]})
  /\ UNCHANGED <<call, url, html, access, pc, pageStatus, dom, resources, outcome,
                 dirs, files, wrote, saved, processedHtml, result>>

\* faulty variant: the element is picked by the rank of completion
TaskElementByCompletion(i) ==
  resources[Cardinality({j \in DOMAIN task : task[j] = "done"}) + 1].element
\* faulty variant: the attribute is set whatever the outcome
ShouldRewriteAlways(o) == TRUE
\* faulty variant: the attribute is set when the GET was answered 200
ShouldRewriteOnStatus(o) == o.status = 200
\* the element whose attribute the task of resource i sets (line 143)
TaskElement(i) == resources[i].element
\* line 141: the test before the attribute is set
ShouldRewrite(o) == o.success

\* lines 140-145: the then of the task of resource i, o what
\* downloadResource resolved with; the task of the page itself has none
RewriteDom(i, o) ==
  IF ~resources[i].isMainPage /\ ShouldRewrite(o) /\ TaskElement(i) \in DOMAIN dom
  THEN [dom EXCEPT ![TaskElement(i)].value = NewPathOf[url][o.filename]]
  ELSE dom

\* faulty variant: no catch, the failure rejects the whole download
DownloadFailedPropagates(i, s) ==
  /\ Reject(Error(IF s = 0 THEN "ECONNRESET" ELSE AxiosStatusCode(s), s))
  /\ UNCHANGED <<task, outcome, dom>>
\* faulty variant: a failure stops the tasks that have not started
DownloadFailedCancelsSiblings(i, s) ==
  /\ task' = [j \in DOMAIN task |->
                IF j = i \/ task[j] = "waiting" THEN "done" ELSE task[j]]
  /\ outcome' = [j \in DOMAIN task |->
                   IF j = i \/ task[j] = "waiting" THEN Outcome(FALSE, s, <<>>)
                   ELSE outcome[j]]
  /\ UNCHANGED <<pc, result, dom>>
\* faulty variant: the failed download is tried again
DownloadFailedRetry(i, s) ==
  /\ task' = [task EXCEPT ![i] = "waiting"]
  /\ UNCHANGED <<outcome, pc, result, dom>>
\* lines 85-88: the catch of downloadResource, for a GET that ended with
\* status s (0: no response) or a write that failed: the task resolves with
\* a failure, which the then of lines 140-145 receives
DownloadFailed(i, s) ==
  /\ Settle(i, Outcome(FALSE, s, <<>>))
  /\ dom' = RewriteDom(i, Outcome(FALSE, s, <<>>))
  /\ UNCHANGED <<pc, result>>

\* lines 70-79: the GET of resource i settles; a response validateStatus
\* accepts goes on to fs.writeFile
ResourceResponse(i) ==
  /\ task[i] = "get"
  /\ \E s \in ResourceStatuses \cup {0} :
       IF s # 0 /\ ValidateStatus(s)
       THEN /\ task' = [task EXCEPT ![i] = "write"]
            /\ outcome' = [outcome EXCEPT ![i].status = s]
            /\ UNCHANGED <<pc, result, dom>>
       ELSE DownloadFailed(i, s)
  /\ UNCHANGED <<call, url, html, access, pageStatus, resources, io, processedHtml>>

\* faulty variant: a page that was downloaded is scanned in its turn
ScanDownloadedPage(i) ==
  IF EndsWith(resources[i].url, DotHtml)
  THEN [k \in DOMAIN LinkedPageBody |->
          Resource(LinkedPageBody[k].value, 0, "src", FALSE)]
  ELSE <<>>
\* lines 74-83: the resources a download adds to the array: none, the body
\* of the response is written to the file and nothing reads it
ScanDownloaded(i) == <<>>

\* lines 79-83 and 140-145: the write of resource i settles
WriteSettled(i) ==
  /\ task[i] = "write"
  /\ \E w \in WriteResults :
       IF w = "OK"
       THEN LET o == Outcome(TRUE, outcome[i].status,
                             FileNameOf[url][resources[i].url])
                more == ScanDownloaded(i)
            IN  /\ files' = files \cup {FilePathOf[url][resources[i].url]}
                /\ wrote' = wrote \cup {i}
                /\ resources' = resources \o more
                /\ task' = [task EXCEPT ![i] = "done"] \o [k \in DOMAIN more |-> "waiting"]
                /\ outcome' = [outcome EXCEPT ![i] = o] \o [k \in DOMAIN more |-> NoOutcome]
                /\ dom' = RewriteDom(i, o)
                /\ UNCHANGED <<pc, result>>
       ELSE /\ DownloadFailed(i, outcome[i].status)
            /\ UNCHANGED <<files, wrote, resources>>
  /\ UNCHANGED <<call, url, html, access, pageStatus, requests, dirs, saved, processedHtml>>

\* faulty variant: run() settles when every task has started
AllTasksStarted == \A i \in DOMAIN task : task[i] # "waiting"
\* faulty variant: run() never settles
ListrNeverSettles == FALSE
\* faulty variant: run() settles with the first task that does
AnyTaskSettled == \E i \in DOMAIN task : task[i] = "done"
\* Listr.run() with exitOnError: false settles when every task has
AllTasksSettled == \A i \in DOMAIN task : task[i] = "done"

\* lines 153-161 and 185-187: run() settles (both handlers resolve with
\* the serialized tree), then the page is written
ListrSettled ==
  /\ pc = "listr"
  /\ AllTasksSettled
  /\ processedHtml' = dom
  /\ pc' = "persist"
  /\ UNCHANGED <<call, url, html, access, pageStatus, scan, io, result>>

\* lines 187-195: the write of the page settles
PersistSettled ==
  /\ pc = "persist"
  /\ \E w \in WriteResults :
       IF w = "OK"
       THEN /\ files' = files \cup {HtmlFilePathOf[url]}
            /\ wrote' = wrote \cup {0}
            /\ saved' = processedHtml
            /\ result' = Resolved(PathString(HtmlFilePathOf[url]))
            /\ pc' = "done"
       ELSE /\ Reject(Error(w, 0))
            /\ UNCHANGED <<files, wrote, saved>>
  /\ UNCHANGED <<call, url, html, access, pageStatus, scan, requests, dirs, processedHtml>>

Next ==
  \/ AccessSettled
  \/ PageResponse
  \/ MkdirSettled
  \/ \E i \in DOMAIN task : StartTask(i)
  \/ \E i \in DOMAIN task : ResourceResponse(i)
  \/ \E i \in DOMAIN task : WriteSettled(i)
  \/ ListrSettled
  \/ PersistSettled

Spec == Init /\ [][Next]_vars

(***************************************************************************)
(* Properties.                                                             *)
(***************************************************************************)
\* the resources found in the markup (not the page itself)
ScannedRefs == {i \in DOMAIN resources : ~resources[i].isMainPage}
\* the local path the element of resource i gets when it is rewritten
LocalPathOf(i) == NewPath(url, ResourceFileName(url, resources[i].url))
\* the GETs issued for resource i
RequestsOf(i) == CopiesIn([url |-> AbsoluteUrl(url, resources[i].url), by |-> i], requests)
\* the names of the files in the resources directory
ResourcesDirFiles ==
  {f[2] : f \in {g \in files : Len(g) = 2 /\ g[1] = ResourcesDirName(url)}}

\* C1: the resource fetches cannot fail the download: while the Listr tasks
\* run, no step rejects downloadPage and, whatever the tasks end with, the
\* run goes on to write the page; once the page fetch was accepted, a
\* rejection is the error of fs.mkdir or of the write of the page (or, for
\* a page URL that does not parse, of generateFileName before them).
C1_ResourceFetchCannotFail ==
  /\ [][pc = "listr" => (pc' \in {"listr", "persist"} /\ result' = Pending)]_vars
  /\ []((result.state = "rejected" /\ access = "OK" /\ PageValidateStatus(pageStatus)) =>
          \/ result.code = "ERR_INVALID_URL" /\ ~ParseURL(url).ok /\ dirs = {}
          \/ result.code \in MkdirResults /\ dirs = {} /\ resources = <<>>
          \/ /\ result.code \in WriteResults
             /\ dirs # {}
             /\ HtmlFilePath(url) \notin files
             /\ \A i \in DOMAIN task : outcome[i].settled)

\* C1 witness: the download resolved although a resource answered 404 and
\* another resource had no response at all
C1_Witness ==
  /\ pc = "done"
  /\ result.state = "resolved"
  /\ \E i, j \in ScannedRefs :
       /\ ~outcome[i].success /\ outcome[i].status = 404
       /\ ~outcome[j].success /\ outcome[j].status = 0

\* C2: in the page written to htmlFilePath, the attribute of every scanned
\* reference is its local path if and only if its download succeeded, and
\* is the authored URL when the download failed.
C2_RewrittenIffSucceeded ==
  pc = "done" =>
    \A i \in ScannedRefs :
      LET e == resources[i].element
      IN  /\ (saved[e].value = LocalPathOf(i)) <=> outcome[i].success
          /\ ~outcome[i].success => saved[e].value = html[e].value

\* C2 witness: a page was written with one reference rewritten and one left
C2_Witness ==
  /\ pc = "done"
  /\ \E i, j \in ScannedRefs :
       /\ outcome[i].success /\ saved[resources[i].element].value = LocalPathOf(i)
       /\ ~outcome[j].success
       /\ saved[resources[j].element].value = html[resources[j].element].value

\* C3: when the page is being written, and when downloadPage has settled,
\* every task started in the run has settled, and the markup written is the
\* tree after the last of them.
C3_WriteAfterAllSettled ==
  pc \in {"persist", "done", "failed"} =>
    /\ \A i \in DOMAIN task : task[i] = "done" /\ outcome[i].settled
    /\ pc = "done" => saved = (IF Len(resources) = 0 THEN html ELSE dom)

\* C3 witness: the page is being written after two tasks, both settled
C3_Witness ==
  /\ pc = "persist"
  /\ Len(resources) >= 2
  /\ \A i \in DOMAIN task : task[i] = "done"

\* what the page holds when written, from the body and the outcomes alone
ExpectedMarkup ==
  LET found == ScanResources(html, url)
  IN  [e \in DOMAIN html |->
        IF \E i \in DOMAIN found :
             ~found[i].isMainPage /\ found[i].element = e /\ outcome[i].success
        THEN [html[e] EXCEPT !.value = NewPath(url, ResourceFileName(url, html[e].value))]
        ELSE html[e]]
\* the files of a resolved run, from the body and the outcomes alone
ExpectedFiles ==
  LET found == ScanResources(html, url)
  IN  {HtmlFilePath(url)}
        \cup {<<ResourcesDirName(url), ResourceFileName(url, found[i].url)>> :
                i \in {j \in DOMAIN found : outcome[j].success}}

\* C4: the page written and the set of files are a function of the body
\* and of the outcomes of the fetches: they are the same for every order in
\* which the tasks start and complete.
C4_OrderIndependent ==
  pc = "done" => saved = ExpectedMarkup /\ files = ExpectedFiles

\* C4 witness: a run of two tasks or more that all succeeded has resolved
C4_Witness ==
  /\ pc = "done"
  /\ Cardinality(ScannedRefs) >= 2
  /\ \A i \in DOMAIN resources : outcome[i].success
  /\ Cardinality(files) >= 3

\* C5: when the output directory is not writable (fs.access fails with
\* EACCES), downloadPage rejects with the not-writable message and no GET
\* was issued, for the page or for a resource.
C5_NotWritableBeforeAnyRequest ==
  access = "EACCES" =>
    /\ pc = "failed"
    /\ result.state = "rejected"
    /\ result.message = "Output directory is not writable"
    /\ requests = EmptyBag

\* C5 witness: a run rejected for a directory that is not writable
C5_Witness == access = "EACCES" /\ result.state = "rejected"

\* C6: when the page answers 404, downloadPage rejects with a message that
\* holds the status, and no directory and no file is created.
C6_NotFoundRejects ==
  pageStatus = 404 =>
    /\ pc = "failed"
    /\ result.state = "rejected"
    /\ result.message = "Request failed with status"
    /\ result.status = 404
    /\ dirs = {}
    /\ files = {}

\* C6 witness: a run whose page answered 404 was rejected
C6_Witness == pageStatus = 404 /\ result.state = "rejected"

\* C7: the page fetch succeeds on status 200 only: any other status
\* rejects with the status message, and the run never scans, never creates
\* the resources directory, never writes.
C7_PageOnlyExactly200 ==
  pageStatus \notin {0, 200} =>
    /\ pc = "failed"
    /\ result.message = "Request failed with status"
    /\ resources = <<>>
    /\ dirs = {}
    /\ files = {}

\* C8: a resource counts as downloaded only on status 200: success implies
\* status 200 and a written file; with any other status the outcome is a
\* failure, the task wrote no file and the attribute is as authored.
C8_ResourceOnlyExactly200 ==
  \A i \in DOMAIN resources :
    /\ task[i] = "write" => outcome[i].status = 200
    /\ outcome[i].success => outcome[i].status = 200 /\ i \in wrote
    /\ (outcome[i].settled /\ outcome[i].status # 200) =>
         /\ ~outcome[i].success
         /\ i \notin wrote
         /\ ~resources[i].isMainPage =>
              dom[resources[i].element].value = html[resources[i].element].value

\* C8 witness: a resource answered 204 and its task settled as failed,
\* while another answered 200 and was written
C8_Witness ==
  \E i, j \in DOMAIN resources :
    /\ outcome[i].settled /\ outcome[i].status = 204 /\ ~outcome[i].success
    /\ outcome[j].success /\ j \in wrote

\* C9 as stated: after downloadPage resolves, the files of the resources
\* directory are the local file names of the scanned references whose
\* fetch succeeded, and nothing else (no copy of the page).
C9_OnlyScannedFiles ==
  pc = "done" =>
    ResourcesDirFiles =
      {ResourceFileName(url, resources[i].url) :
         i \in {j \in ScannedRefs : outcome[j].success}}

\* the name of the copy of the page that lines 103-111 and 134 download
\* when the page URL ends with .html
MainPageCopy ==
  IF EndsWith(url, DotHtml) /\ \E i \in DOMAIN resources :
                                  resources[i].isMainPage /\ outcome[i].success
  THEN {ResourceFileName(url, url)}
  ELSE {}

\* C9 amended: after downloadPage resolves, the files of the resources
\* directory are the local file names of the scanned references whose
\* fetch succeeded, plus, when the page URL ends with .html, the copy of
\* the page if its second fetch succeeded; the only other file is the page.
C9_ScannedFilesAndPageCopy ==
  pc = "done" =>
    /\ ResourcesDirFiles =
         {ResourceFileName(url, resources[i].url) :
            i \in {j \in ScannedRefs : outcome[j].success}} \cup MainPageCopy
    /\ \A f \in files : f = HtmlFilePath(url) \/ (Len(f) = 2 /\ f[1] = ResourcesDirName(url))

\* C9 witness: a resolved run whose page URL ends with .html, with the
\* copy of the page saved and a scanned reference that failed
C9_Witness ==
  /\ pc = "done"
  /\ MainPageCopy # {}
  /\ \E i \in ScannedRefs : ~outcome[i].success
  /\ \E i \in ScannedRefs : outcome[i].success

\* C10: every resource is requested once at most; once its task has
\* settled, failed or not, exactly one GET was issued for it.
C10_NoRetry ==
  \A i \in DOMAIN resources :
    /\ RequestsOf(i) <= 1
    /\ task[i] # "waiting" => RequestsOf(i) = 1

\* C10 witness: a run resolved after a download failed, with one GET for it
C10_Witness ==
  /\ pc = "done"
  /\ \E i \in ScannedRefs : ~outcome[i].success /\ RequestsOf(i) = 1


(***************************************************************************)
(* The run of the fixture test: the same steps from the hexlet page.       *)
(***************************************************************************)
InitHexlet ==
  /\ call = NoCall
  /\ url = UrlHexlet
  /\ html \in HexletBodies
  /\ pc = "access"
  /\ access = ""
  /\ pageStatus = 0
  /\ dom = <<>>
  /\ resources = <<>>
  /\ task = <<>>
  /\ outcome = <<>>
  /\ requests = EmptyBag
  /\ dirs = {}
  /\ files = {}
  /\ wrote = {}
  /\ saved = <<>>
  /\ processedHtml = <<>>
  /\ result = Pending

SpecHexlet == InitHexlet /\ [][Next]_vars

\* C11: references that resolve to the same absolute URL get the same file
\* name, and that URL is requested once in the run, not once per reference.
C11_SameUrlOneDownload ==
  \A i, j \in ScannedRefs :
    (i # j /\ AbsoluteUrl(url, resources[i].url) = AbsoluteUrl(url, resources[j].url)) =>
      /\ ResourceFileName(url, resources[i].url) = ResourceFileName(url, resources[j].url)
      /\ RequestsOf(i) + RequestsOf(j) <= 1

\* C12: no state has two tasks of the run writing the same file of the
\* resources directory at once.
C12_NoTwoWritersOnOneFile ==
  \A i, j \in DOMAIN resources :
    (i # j /\ task[i] = "write" /\ task[j] = "write") =>
      ResourceFilePath(url, resources[i].url) # ResourceFilePath(url, resources[j].url)

HexletPageName == <<"r", "u", "-", "h", "e", "x", "l", "e", "t", "-", "i", "o", "-", "c", "o", "u", "r", "s", "e", "s", ".", "h", "t", "m", "l">>
HexletDirName == <<"r", "u", "-", "h", "e", "x", "l", "e", "t", "-", "i", "o", "-", "c", "o", "u", "r", "s", "e", "s", "_", "f", "i", "l", "e", "s">>
HexletImgName ==
  <<"r", "u", "-", "h", "e", "x", "l", "e", "t", "-", "i", "o", "-", "a",
    "s", "s", "e", "t", "s", "-", "p", "r", "o", "f", "e", "s", "s", "i",
    "o", "n", "s", "-", "n", "o", "d", "e", "j", "s", ".", "p", "n", "g">>

\* C13: for https://ru.hexlet.io/courses with the image
\* /assets/professions/nodejs.png fetched successfully, the page is
\* ru-hexlet-io-courses.html, the directory ru-hexlet-io-courses_files, the
\* image is saved there as ru-hexlet-io-assets-professions-nodejs.png and
\* the src of the img is that directory, a slash and that name.
C13_HexletScenario ==
  (pc = "done" /\ url = UrlHexlet /\ html = <<HexletImg>> /\ outcome[1].success) =>
    /\ result.value.path = <<HexletPageName>>
    /\ dirs = {<<HexletDirName>>}
    /\ files = {<<HexletPageName>>, <<HexletDirName, HexletImgName>>}
    /\ saved[1].value = HexletDirName \o <<"/">> \o HexletImgName


(***************************************************************************)
(* generateFileName and isLocalResource called alone: the arguments are    *)
(* drawn at the start, one step makes the call.                            *)
(***************************************************************************)
NameHosts == {<<"a", ".", "i", "o">>, HexletHost}
SegmentPool ==
  {<<"c", "o", "u", "r", "s", "e", "s">>,
   <<"a", ".", "p", "n", "g">>,
   <<"A", ".", "P", "N", "G">>,
   <<"a", "_", "b">>,
   <<"p", ".", "h", "t", "m", "l">>}
\* the paths of the URLs named: sequences of segments
SegmentPaths == SeqsUpTo(SegmentPool, MaxSegs)
RECURSIVE PathOf(_)
\* the path made of segments: /s1/s2, nothing for no segment
PathOf(segs) == IF segs = <<>> THEN <<>> ELSE <<"/">> \o Head(segs) \o PathOf(Tail(segs))
NameArgs == [host : NameHosts, segs : SegmentPaths, isResource : BOOLEAN]
\* the urlString of such arguments
UrlOf(a) == Https \o a.host \o PathOf(a.segs)

BaseP == Https \o <<"a", ".", "c", "o", "m", "/", "p">>
BaseDP == Https \o <<"a", ".", "c", "o", "m", "/", "d", "/", "p">>
\* a base that does not parse
BaseNoScheme == <<"a", ".", "c", "o", "m", "/", "p">>
LocalBases == {BaseP, BaseDP, BaseNoScheme}
\* how a candidate starts: 1 nothing (path-relative), 2 a slash, 3 and 4
\* protocol-relative, 5 to 7 absolute, 8 absolute with a space in the host
CandidatePrefixes ==
  <<<<>>,
    <<"/">>,
    <<"/", "/", "a", ".", "c", "o", "m", "/">>,
    <<"/", "/", "b", ".", "c", "o", "m", "/">>,
    Https \o <<"a", ".", "c", "o", "m", "/">>,
    Https \o <<"b", ".", "c", "o", "m", "/">>,
    Https \o <<"s", "u", "b", ".", "a", ".", "c", "o", "m", "/">>,
    Https \o <<"a", " ", "c", "o", "m", "/">>>>
XPng == <<"x", ".", "p", "n", "g">>
NotAUrl == <<"n", "o", "t", " ", "a", " ", "u", "r", "l">>
CandidateTails == {XPng, NotAUrl, <<"d", "/", "x", ".", "p", "n", "g">>}
LocalArgs == [base : LocalBases, prefix : DOMAIN CandidatePrefixes, tail : CandidateTails]
\* the resourceUrl of such arguments
CandidateOf(a) == CandidatePrefixes[a.prefix] \o a.tail

ScriptLocal == Elem("script", "", <<"/", "j", ".", "j", "s">>)
\* a link that is no stylesheet
LinkIcon == Elem("link", "icon", <<"/", "i", ".", "i", "c", "o">>)
ScanPool == {ImgLocal, ImgRemote, LinkCss, ScriptLocal, AnchorHtml, LinkIcon}
ScanArgs == [baseUrl : {UrlCourses, UrlPageHtml}, html : SeqsUpTo(ScanPool, MaxScan)]

InitCalls ==
  /\ call \in {[fn |-> "generateFileName", args |-> a, returned |-> FALSE, result |-> <<>>] :
                 a \in NameArgs}
             \cup {[fn |-> "isLocalResource", args |-> a, returned |-> FALSE, result |-> <<>>] :
                     a \in LocalArgs}
             \cup {[fn |-> "scan", args |-> a, returned |-> FALSE, result |-> <<>>] :
                     a \in ScanArgs}
             \cup {[fn |-> "resourcesDir", args |-> a, returned |-> FALSE, result |-> <<>>] :
                     a \in {b \in NameArgs : ~b.isResource}}
  /\ url = <<>>
  /\ html = <<>>
  /\ pc = "idle"
  /\ access = ""
  /\ pageStatus = 0
  /\ dom = <<>>
  /\ resources = <<>>
  /\ task = <<>>
  /\ outcome = <<>>
  /\ requests = EmptyBag
  /\ dirs = {}
  /\ files = {}
  /\ wrote = {}
  /\ saved = <<>>
  /\ processedHtml = <<>>
  /\ result = Pending

pipeline == <<url, html, pc, access, pageStatus, dom, resources, task, outcome,
              requests, dirs, files, wrote, saved, processedHtml, result>>

\* generateFileName(urlString, isResource) is called and returns
CallGenerateFileName ==
  /\ call.fn = "generateFileName"
  /\ ~call.returned
  /\ call' = [call EXCEPT !.returned = TRUE,
                          !.result = generateFileName(UrlOf(call.args), call.args.isResource)]
  /\ UNCHANGED pipeline

\* isLocalResource(baseUrl, resourceUrl) is called and returns
CallIsLocalResource ==
  /\ call.fn = "isLocalResource"
  /\ ~call.returned
  /\ call' = [call EXCEPT !.returned = TRUE,
                          !.result = isLocalResource(call.args.base, CandidateOf(call.args))]
  /\ UNCHANGED pipeline

\* lines 93-124: processHtmlWithProgress builds its resources array
CallScan ==
  /\ call.fn = "scan"
  /\ ~call.returned
  /\ call' = [call EXCEPT !.returned = TRUE,
                          !.result = ScanResources(call.args.html, call.args.baseUrl)]
  /\ UNCHANGED pipeline

\* lines 173-175: downloadPage names the resources directory
CallResourcesDir ==
  /\ call.fn = "resourcesDir"
  /\ ~call.returned
  /\ call' = [call EXCEPT !.returned = TRUE,
                          !.result = ResourcesDirName(UrlOf(call.args))]
  /\ UNCHANGED pipeline

NextCalls == CallGenerateFileName \/ CallIsLocalResource \/ CallScan \/ CallResourcesDir

SpecCalls == InitCalls /\ [][NextCalls]_vars


(***************************************************************************)
(* The names generateFileName returns                                      *)
(***************************************************************************)
\* the call of generateFileName has returned
NameReturned == call.fn = "generateFileName" /\ call.returned
\* the last path segment of the URL named, nothing when the path is empty
LastSegment(a) == IF a.segs = <<>> THEN <<>> ELSE a.segs[Len(a.segs)]
\* the position of the last dot of s, 0 when s has none
LastDot(s) ==
  LET dots == {i \in 1..Len(s) : s[i] = "."}
  IN  IF dots = {} THEN 0 ELSE CHOOSE i \in dots : \A j \in dots : j <= i
\* the extension of a segment, with its dot: from the last dot on, nothing
\* when the segment has no dot or starts with its only dot
ExtName(seg) == IF LastDot(seg) > 1 THEN From(seg, LastDot(seg)) ELSE <<>>

\* C14: with the resource role the name ends with exactly the extension of
\* the last path segment of the URL, present once and in the case of the
\* URL, and with .html when the last path segment has no extension
C14_ResourceExtensionOnce ==
  (NameReturned /\ call.args.isResource) =>
    LET ext == ExtName(LastSegment(call.args))
    IN  IF ext = <<>>
        THEN EndsWith(call.result, DotHtml)
        ELSE EndsWith(call.result, ext) /\ ~EndsWith(call.result, ext \o ext)

\* the part of a name before its extension
Stem(name) == IF LastDot(name) = 0 THEN name ELSE SubSeq(name, 1, LastDot(name) - 1)
\* only letters, digits and single hyphens, no hyphen at either end
Sanitized(s) ==
  /\ \A i \in 1..Len(s) : s[i] \in Alnum \cup {"-"}
  /\ ~Includes(s, <<"-", "-">>)
  /\ s # <<>> => (s[1] # "-" /\ s[Len(s)] # "-")

\* C15: the name starts with the host, its dots replaced by hyphens, and
\* before its extension holds only letters, digits and single hyphens
C15_BaseNameSanitized ==
  NameReturned =>
    /\ StartsWith(call.result, ReplaceAll(call.args.host, ".", "-"))
    /\ Sanitized(Stem(call.result))

RECURSIVE JoinSegments(_)
\* the segments of a path, a hyphen before each
JoinSegments(segs) ==
  IF segs = <<>> THEN <<>> ELSE <<"-">> \o Head(segs) \o JoinSegments(Tail(segs))
\* the host, hyphens for its dots, then the segments of the path
JoinedName(a) == ReplaceAll(a.host, ".", "-") \o JoinSegments(a.segs)
RECURSIVE HtmlSuffixes(_)
\* how many times .html is repeated at the end of a name
HtmlSuffixes(name) ==
  IF EndsWith(name, DotHtml)
  THEN 1 + HtmlSuffixes(SubSeq(name, 1, Len(name) - Len(DotHtml)))
  ELSE 0

LocalReturned == call.fn = "isLocalResource" /\ call.returned
\* the bases that parse; the host of each is a.com
ParsableBases == {BaseP, BaseDP}
\* the candidate prefixes that resolve to the host a.com against such a base:
\* the two relative ones, //a.com/ and https://a.com/
SameHostPrefixes == {1, 2, 3, 5}
\* the answer expected: the candidate resolves and its host is that of the base
ExpectedLocal(a) == a.base \in ParsableBases /\ a.prefix \in SameHostPrefixes

\* C18 as stated: isLocalResource returns, without throwing, whether the
\* candidate resolved against the base has the host of the base, and false
\* for the candidate "not a url"
C18_NotAUrlIsNotLocal ==
  LocalReturned =>
    /\ call.result = ExpectedLocal(call.args)
    /\ CandidateOf(call.args) = NotAUrl => call.result = FALSE

\* C18 amended: isLocalResource returns, without throwing, true exactly when
\* the base parses and the candidate resolved against it has the host of the
\* base, subdomains excluded: false for https://b.com/x.png against
\* https://a.com/p, true for /x.png, and true for "not a url", which
\* resolves as a relative path on the host of the base
C18_LocalIffSameHost ==
  LocalReturned =>
    /\ call.result = ExpectedLocal(call.args)
    /\ call.args.base = BaseP =>
         /\ CandidateOf(call.args) = Https \o <<"b", ".", "c", "o", "m", "/", "x", ".", "p", "n", "g">> => call.result = FALSE
         /\ CandidateOf(call.args) = <<"/">> \o XPng => call.result = TRUE
         /\ CandidateOf(call.args) = NotAUrl => call.result = TRUE
\* isLocalResource has answered for "not a url" against https://a.com/p
C18_Witness ==
  /\ LocalReturned
  /\ call.args.base = BaseP
  /\ CandidateOf(call.args) = NotAUrl
  /\ call.result = TRUE


(***************************************************************************)
(* How downloadPage starts and what it resolves with                       *)
(***************************************************************************)
\* C19: for a page URL that does not parse, downloadPage fails from its
\* first state: the output directory is never checked and no request is
\* ever sent
C19_InvalidUrlFailsFromInit ==
  ~ParseURL(url).ok =>
    /\ access = ""
    /\ requests = EmptyBag
    /\ pc \in {"access", "failed"}

\* the name of the page file for each page URL that parses
ExpectedPageName ==
  IF url = UrlCourses THEN <<"a", "-", "i", "o", "-", "c", ".", "h", "t", "m", "l">>
  ELSE IF url = UrlPageHtml THEN <<"a", "-", "i", "o", "-", "p", ".", "h", "t", "m", "l">>
  ELSE HexletPageName

\* C20 as stated: downloadPage resolves with a record of htmlPath and the
\* resources directory, htmlPath being outputDirectory/pageFileName, the
\* file the final markup was written to
C20_ResolvesWithRecord ==
  pc = "done" =>
    /\ result.state = "resolved"
    /\ result.value.type = "object"
    /\ result.value.path = <<ExpectedPageName>>
    /\ result.value.path \in files

\* C20 amended: downloadPage resolves with one string, the path
\* outputDirectory/pageFileName, and that is the file the final markup was
\* written to; the resources directory is not part of the value
C20_ResolvesWithHtmlPath ==
  pc = "done" =>
    /\ result.state = "resolved"
    /\ result.value = PathString(<<ExpectedPageName>>)
    /\ result.value.path \in files
    /\ 0 \in wrote
    /\ saved = processedHtml
\* downloadPage has resolved for a page with a resource
C20_Witness ==
  /\ pc = "done"
  /\ result.state = "resolved"
  /\ Len(resources) > 0
  /\ dirs # {}


(***************************************************************************)
(* The errors of downloadPage                                              *)
(***************************************************************************)
\* C21: downloadPage has failed exactly when its promise is rejected; the
\* rejection is a PageLoaderError with a message and a code; and the
\* promise is resolved only after the directory check, the page fetch, the
\* creation of the directory and the write of the page all succeeded
C21_RejectionsAreTyped ==
  /\ pc = "failed" <=> result.state = "rejected"
  /\ result.state = "rejected" =>
       /\ result.name = "PageLoaderError"
       /\ result.message # ""
       /\ result.code # ""
       /\ result.value = Undefined
  /\ result.state = "resolved" =>
       /\ pc = "done"
       /\ access = "OK"
       /\ PageValidateStatus(pageStatus)
       /\ ResourcesDir(url) \in dirs
       /\ 0 \in wrote
\* the write of the page has failed after the tasks of two resources
C21_Witness ==
  /\ pc = "failed"
  /\ result.code = "ENOSPC"
  /\ Len(resources) >= 2
  /\ result.name = "PageLoaderError"


\* C22: when the page GET settles, a DNS failure, a refused connection, a
\* timeout and a status other than 200 each reject downloadPage with the
\* kind of error of the trigger: the code of the network error (a DNS
\* failure with the could-not-resolve-host message), or the status error
\* with the status received
C22_PageFetchErrorKinds ==
  [][(pc = "pageGet" /\ pc' # "pageGet") =>
       \/ /\ pageStatus' = 200
          /\ result'.code \notin NetworkErrors
          /\ result'.status = 0
       \/ /\ pageStatus' \notin {0, 200}
          /\ result'.state = "rejected"
          /\ result'.message = "Request failed with status"
          /\ result'.status = pageStatus'
          /\ result'.code \notin NetworkErrors
       \/ /\ pageStatus' = 0
          /\ result'.state = "rejected"
          /\ result'.code \in NetworkErrors
          /\ result'.message = (IF result'.code = "ENOTFOUND"
                                THEN "Network error: could not resolve host"
                                ELSE "error.message")]_vars


\* C23: when the output path does not exist, or is not a directory,
\* downloadPage fails at the directory check, with the not-found or the
\* not-a-directory error, neither being the not-writable one, before the
\* page is requested
C23_MissingOrNotDirFailsAtCheck ==
  (result.state = "rejected" /\ result.code \in {"ENOENT", "ENOTDIR"}) =>
    /\ access = result.code
    /\ result.message # "Output directory is not writable"
    /\ requests = EmptyBag
    /\ dirs = {} /\ files = {}


(***************************************************************************)
(* A run in an output directory that an earlier run, or nothing, filled    *)
(***************************************************************************)
PagesParsable == {UrlCourses, UrlPageHtml}
BodiesOfImages == SeqsUpTo({ImgLocal, ImgRemote}, MaxElems)
\* the start of a first run (empty directory) or of a second one, which
\* finds the resources directory and the page file of the first
InitRerun ==
  /\ call = NoCall
  /\ url \in PagesParsable
  /\ html \in BodiesOfImages
  /\ pc = "access"
  /\ access = ""
  /\ pageStatus = 0
  /\ dom = <<>>
  /\ resources = <<>>
  /\ task = <<>>
  /\ outcome = <<>>
  /\ requests = EmptyBag
  /\ \/ dirs = {} /\ files = {} /\ saved = <<>>
     \/ dirs = {ResourcesDir(url)} /\ files = {HtmlFilePath(url)} /\ saved = html
  /\ wrote = {}
  /\ processedHtml = <<>>
  /\ result = Pending

SpecRerun == InitRerun /\ [][Next]_vars

\* the name of the resources directory for each page URL that parses
ExpectedDirName ==
  IF url = UrlCourses THEN <<"a", "-", "i", "o", "-", "c", "_", "f", "i", "l", "e", "s">>
  ELSE IF url = UrlPageHtml THEN <<"a", "-", "i", "o", "-", "p", "_", "f", "i", "l", "e", "s">>
  ELSE HexletDirName

StepOrder ==
  {<<"access", "pageGet">>, <<"pageGet", "mkdir">>, <<"mkdir", "listr">>,
   <<"mkdir", "persist">>, <<"listr", "persist">>, <<"persist", "done">>}
\* the steps that can fail the run
FailingSteps == {"access", "pageGet", "mkdir", "persist"}
\* the GETs the tasks of the resources have issued
TaskRequests == {r \in BagToSet(requests) : r.by # 0}

\* C25: the steps of a run follow one another in the fixed order, each
\* entered at most once and none after the run has settled; the effects of
\* a step are absent before it; and a run that failed before the resource
\* fetches has requested no resource and written no file
C25_StepsInOrder ==
  /\ [][/\ pc \notin {"done", "failed"}
        /\ pc' # pc => (<<pc, pc'>> \in StepOrder \/ (pc \in FailingSteps /\ pc' = "failed"))
        /\ pc' = "failed" => (result'.state = "rejected" /\ io' = io /\ scan' = scan)]_vars
  /\ [](/\ CopiesIn([url |-> url, by |-> 0], requests) <= 1
        /\ pc = "access" => requests = EmptyBag
        /\ pc \in {"access", "pageGet"} => (dirs = {} /\ pageStatus = 0)
        /\ pc \in {"access", "pageGet", "mkdir"} =>
             (resources = <<>> /\ TaskRequests = {} /\ files = {})
        /\ pc # "done" => 0 \notin wrote
        /\ (pc = "failed" /\ result.code \notin WriteResults) =>
             (TaskRequests = {} /\ files = {} /\ resources = <<>>))
\* a run has gone through every step, with two resources
C25_Witness ==
  /\ pc = "done"
  /\ Len(resources) >= 2
  /\ access = "OK"
  /\ pageStatus # 0
  /\ Cardinality(TaskRequests) >= 2


(***************************************************************************)
(* The tasks of the resources, one beside the other                        *)
(***************************************************************************)
\* the tasks a step moves
Moved == {i \in DOMAIN task : task'[i] # task[i]}

\* C26: a step of one task, a failure included, leaves the other tasks,
\* their outcomes and their elements as they were; when all tasks are done
\* every resource was requested once, whatever the others ended with; and
\* a reference that succeeded has its file and its local path, one that
\* failed its authored URL, whatever its siblings did
C26_SiblingsUnaffected ==
  /\ [][pc = "listr" =>
          /\ Cardinality(Moved) <= 1
          /\ \A j \in DOMAIN task \ Moved : outcome'[j] = outcome[j]
          /\ \A e \in DOMAIN dom :
               dom'[e] # dom[e] => \E i \in Moved : resources[i].element = e]_vars
  /\ [](pc \in {"persist", "done", "failed"} =>
          \A i \in DOMAIN resources :
            /\ RequestsOf(i) = 1
            /\ outcome[i].settled
            /\ outcome[i].success => ResourceFilePath(url, resources[i].url) \in files
            /\ i \in ScannedRefs =>
                 dom[resources[i].element].value =
                   (IF outcome[i].success THEN LocalPathOf(i)
                    ELSE html[resources[i].element].value))
\* the first resource failed, the second was then requested and succeeded
C26_Witness ==
  /\ pc = "listr"
  /\ Len(resources) = 2
  /\ ScannedRefs = {1, 2}
  /\ task[1] = "done" /\ ~outcome[1].success
  /\ task[2] = "done" /\ outcome[2].success
  /\ dom[resources[2].element].value = LocalPathOf(2)


(***************************************************************************)
(* The downloadPage built on prepareDownloadTasks (src/unnamed/part_000,   *)
(* lines 263-420): the references are rewritten before the downloads.      *)
(***************************************************************************)
ImgAbsolute == Elem("img", "", Https \o <<"a", ".", "i", "o", "/", "a", ".", "p", "n", "g">>)
LinkCssAbsolute == Elem("link", "stylesheet", Https \o <<"a", ".", "i", "o", "/", "s", ".", "c", "s", "s">>)
PrepareBodies == SeqsUpTo({ImgAbsolute, LinkCssAbsolute, ImgLocal, ImgRemote}, MaxElems)

\* url.pathname.split('/').pop(): what follows the last slash
LastPathPart(pathname) ==
  LET slashes == {i \in 1..Len(pathname) : pathname[i] = "/"}
  IN  IF slashes = {} THEN pathname
      ELSE From(pathname, (CHOOSE i \in slashes : \A j \in slashes : j <= i) + 1)
\* lines 273-275: the text after the last dot of the last part, html when
\* the part has no dot
prepExtension(pathname) ==
  LET part == LastPathPart(pathname)
      dots == {i \in 1..Len(part) : part[i] = "."}
  IN  IF dots = {} THEN <<"h", "t", "m", "l">>
      ELSE From(part, (CHOOSE i \in dots : \A j \in dots : j <= i) + 1)
\* generateFileName of lines 263-280, urlString a URL that parses
prepGenerateFileName(urlString, isResource) ==
  LET u == ParseURL(urlString)
      name == BaseName(u)
      dotExtension == <<".">> \o prepExtension(u.pathname)
  IN  IF ~isResource
      THEN (IF EndsWith(name, DotHtml) THEN name ELSE name \o DotHtml)
      ELSE (IF EndsWith(name, dotExtension)
            THEN SubSeq(name, 1, Len(name) - Len(dotExtension))
            ELSE name) \o dotExtension
\* lines 376-380 of that file: the names of a run
prepPageName(pageUrl) == prepGenerateFileName(pageUrl, FALSE)
prepResourcesDirName(pageUrl) == ReplaceFirst(prepPageName(pageUrl), DotHtml, <<>>) \o FilesSuffix
\* getResourceLocalPath(resourceUrl, resourcesDirName), resourceUrl a URL
\* that parses (generateFileName throws for any other)
getResourceLocalPath(resourceUrl, resourcesDirName) ==
  resourcesDirName \o <<"/">> \o prepGenerateFileName(resourceUrl, TRUE)
\* findResourcesInHtml($, baseUrl)
findResourcesInHtml(body, baseUrl) ==
  ScanFrom(body, baseUrl, 1, 1) \o ScanFrom(body, baseUrl, 2, 1)
    \o ScanFrom(body, baseUrl, 3, 1) \o ScanFrom(body, baseUrl, 4, 1)
\* getResourceLocalPath throws for one of the resources found: new URL of a
\* reference that is not absolute
prepareThrows(found) == \E i \in DOMAIN found : ~ParseURL(found[i].url).ok
\* lines 350-353: the tree after every resource found got its local path
prepareRewrite(body, found, resourcesDirName) ==
  [e \in DOMAIN body |->
     IF \E i \in DOMAIN found : found[i].element = e
     THEN [body[e] EXCEPT !.value = getResourceLocalPath(body[e].value, resourcesDirName)]
     ELSE body[e]]

\* lines 398-400: the value downloadPage resolves with
PathsObject(htmlPath, resourcesDir) ==
  [type |-> "object", path |-> htmlPath, dir |-> resourcesDir]
\* lines 402-417: the message of the error thrown
prepMessage(error) ==
  IF error.code = "ENOTFOUND" THEN "DNS error: host not found"
  ELSE IF error.code = "ECONNREFUSED" THEN "Connection refused"
  ELSE IF error.status # 0 THEN "HTTP error"
  ELSE IF error.code = "ETIMEDOUT" THEN "Request timeout"
  ELSE "error.message"
\* lines 401-420: the catch of the chain
PrepReject(error) ==
  /\ result' = [state |-> "rejected", value |-> Undefined, name |-> "PageLoaderError",
                message |-> prepMessage(error),
                status |-> IF prepMessage(error) = "HTTP error" THEN error.status ELSE 0,
                code |-> IF error.code = "" THEN "UNKNOWN" ELSE error.code]
  /\ pc' = "failed"

InitPrepare ==
  /\ call = NoCall
  /\ url = UrlCourses
  /\ html \in PrepareBodies
  /\ pc = "access"
  /\ access = ""
  /\ pageStatus = 0
  /\ dom = <<>>
  /\ resources = <<>>
  /\ task = <<>>
  /\ outcome = <<>>
  /\ requests = EmptyBag
  /\ dirs = {}
  /\ files = {}
  /\ wrote = {}
  /\ saved = <<>>
  /\ processedHtml = <<>>
  /\ result = Pending


\* lines 370-371: fs.access settles; then the page is requested
PrepAccessSettled ==
  /\ pc = "access"
  /\ \E r \in AccessResults :
       /\ access' = r
       /\ IF r # "OK"
          THEN /\ PrepReject(Error(r, 0))
               /\ UNCHANGED requests
          ELSE /\ requests' = requests (+) SetToBag({[url |-> url, by |-> 0]})
               /\ pc' = "pageGet"
               /\ UNCHANGED result
  /\ UNCHANGED <<call, url, html, pageStatus, scan, dirs, files, wrote, saved, processedHtml>>

\* lines 371-382: the page GET settles; then fs.mkdir is called
PrepPageResponse ==
  /\ pc = "pageGet"
  /\ \/ \E s \in PageStatuses :
          /\ pageStatus' = s
          /\ IF PageValidateStatus(s)
             THEN pc' = "mkdir" /\ UNCHANGED result
             ELSE PrepReject(Error(AxiosStatusCode(s), s))
     \/ \E e \in NetworkErrors :
          /\ PrepReject(Error(e, 0))
          /\ UNCHANGED pageStatus
  /\ UNCHANGED <<call, url, html, access, scan, io, processedHtml>>

\* lines 382-384 and 338-364: fs.mkdir settles; prepareDownloadTasks finds
\* the resources, gives each its local path in the tree and serializes the
\* tree; without tasks the page is written next, else Listr runs them
PrepMkdirSettled ==
  /\ pc = "mkdir"
  /\ \E r \in MkdirOutcomes(<<prepResourcesDirName(url)>> \in dirs) :
       IF r # "OK"
       THEN /\ PrepReject(Error(r, 0))
            /\ UNCHANGED <<dirs, dom, resources, task, outcome, processedHtml>>
       ELSE LET found == findResourcesInHtml(html, url)
            IN  /\ dirs' = dirs \cup {<<prepResourcesDirName(url)>>}
                /\ IF Len(found) # 0 /\ prepareThrows(found)
                   THEN /\ PrepReject(Error("ERR_INVALID_URL", 0))
                        /\ UNCHANGED <<dom, resources, task, outcome, processedHtml>>
                   ELSE /\ dom' = prepareRewrite(html, found, prepResourcesDirName(url))
                        /\ processedHtml' = dom'
                        /\ resources' = found
                        /\ task' = [i \in 1..Len(found) |-> "waiting"]
                        /\ outcome' = [i \in 1..Len(found) |-> NoOutcome]
                        /\ pc' = IF Len(found) = 0 THEN "persist" ELSE "listr"
                        /\ UNCHANGED result
  /\ UNCHANGED <<call, url, html, access, pageStatus, requests, files, wrote, saved>>

\* lines 286-296: Listr starts the task of resource i, which issues the GET
PrepStartTask(i) ==
  /\ pc = "listr"
  /\ task[i] = "waiting"
  /\ task' = [task EXCEPT ![i] = "get"]
  /\ requests' = requests (+) SetToBag({[url |-> AbsoluteUrl(url, resources[i].url),
                                          by |-> i]})
  /\ UNCHANGED <<call, url, html, access, pc, pageStatus, dom, resources, outcome,
                 dirs, files, wrote, saved, processedHtml, result>>

\* lines 293-311: the GET of resource i settles; a refused response or a
\* network error resolves the task with a failure
PrepResourceResponse(i) ==
  /\ pc = "listr"
  /\ task[i] = "get"
  /\ \E s \in ResourceStatuses \cup {0} :
       IF s # 0 /\ ValidateStatus(s)
       THEN /\ task' = [task EXCEPT ![i] = "write"]
            /\ outcome' = [outcome EXCEPT ![i].status = s]
       ELSE Settle(i, Outcome(FALSE, s, <<>>))
  /\ UNCHANGED <<call, url, html, access, pc, pageStatus, dom, resources, io,
                 processedHtml, result>>

\* lines 297-311: the write of resource i settles
PrepWriteSettled(i) ==
  /\ pc = "listr"
  /\ task[i] = "write"
  /\ \E w \in WriteResults :
       IF w = "OK"
       THEN LET filename == prepGenerateFileName(AbsoluteUrl(url, resources[i].url), TRUE)
            IN  /\ files' = files \cup {<<prepResourcesDirName(url), filename>>}
                /\ wrote' = wrote \cup {i}
                /\ Settle(i, Outcome(TRUE, outcome[i].status, filename))
       ELSE /\ Settle(i, Outcome(FALSE, outcome[i].status, <<>>))
            /\ UNCHANGED <<files, wrote>>
  /\ UNCHANGED <<call, url, html, access, pc, pageStatus, dom, resources, requests, dirs,
                 saved, processedHtml, result>>

\* lines 390-394: run() settles when every task has
PrepListrSettled ==
  /\ pc = "listr"
  /\ AllTasksSettled
  /\ pc' = "persist"
  /\ UNCHANGED <<call, url, html, access, pageStatus, scan, io, processedHtml, result>>

\* lines 386-400: the write of the page settles
PrepPersistSettled ==
  /\ pc = "persist"
  /\ \E w \in WriteResults :
       IF w = "OK"
       THEN /\ files' = files \cup {<<prepPageName(url)>>}
            /\ wrote' = wrote \cup {0}
            /\ saved' = processedHtml
            /\ result' = Resolved(PathsObject(<<prepPageName(url)>>,
                                              <<prepResourcesDirName(url)>>))
            /\ pc' = "done"
       ELSE /\ PrepReject(Error(w, 0))
            /\ UNCHANGED <<files, wrote, saved>>
  /\ UNCHANGED <<call, url, html, access, pageStatus, scan, requests, dirs, processedHtml>>

NextPrepare ==
  \/ PrepAccessSettled
  \/ PrepPageResponse
  \/ PrepMkdirSettled
  \/ \E i \in DOMAIN task : PrepStartTask(i)
  \/ \E i \in DOMAIN task : PrepResourceResponse(i)
  \/ \E i \in DOMAIN task : PrepWriteSettled(i)
  \/ PrepListrSettled
  \/ PrepPersistSettled

SpecPrepare == InitPrepare /\ [][NextPrepare]_vars

\* C27: in the downloadPage built on prepareDownloadTasks, the page written
\* holds the authored URL of every reference whose download failed, and a
\* local path only for the references downloaded
C27_PrepareFailedKeepsUrl ==
  pc = "done" =>
    \A i \in DOMAIN resources :
      LET e == resources[i].element
      IN  /\ ~outcome[i].success => saved[e].value = html[e].value
          /\ saved[e].value # html[e].value => outcome[i].success


(***************************************************************************)
(* References to other hosts                                               *)
(***************************************************************************)
\* the elements of the body whose reference names the host b.io, which is
\* the host of no page
RemoteElements == {e \in DOMAIN html : StartsWith(html[e].value, Https \o <<"b", ".", "i", "o", "/">>)}

\* C28: a reference to another host than the page's is never requested, no
\* task is made for it, and its attribute is the authored one in the tree
\* and in the page written
C28_RemoteUntouched ==
  \A e \in RemoteElements :
    /\ \A r \in BagToSet(requests) : r.url # html[e].value
    /\ \A i \in DOMAIN resources : resources[i].element # e
    /\ dom # <<>> => dom[e] = html[e]
    /\ pc = "done" => saved[e] = html[e]
\* a page was written whose first reference is remote and whose second
\* was downloaded
C28_Witness ==
  /\ pc = "done"
  /\ RemoteElements = {1}
  /\ Len(resources) = 1
  /\ outcome[1].success
  /\ saved[2].value = LocalPathOf(1)


(***************************************************************************)
(* The order of the resources array                                        *)
(***************************************************************************)
\* the scan has returned
ScanReturned == call.fn = "scan" /\ call.returned
\* the kind of an element: 1 image, 2 stylesheet, 3 script, 4 linked page
KindOfTag(tag) ==
  CASE tag = "img" -> 1 [] tag = "link" -> 2 [] tag = "script" -> 3 [] tag = "a" -> 4
\* the elements of a body the scan is to collect: of one of the four
\* kinds, and not on the host b.io
Collectable(body) ==
  {e \in DOMAIN body :
     /\ body[e].tag = "link" => body[e].rel = "stylesheet"
     /\ ~StartsWith(body[e].value, Https \o <<"b", ".", "i", "o", "/">>)}
\* list r names each collectable element of the body once: images first,
\* then stylesheets, scripts and linked pages, each kind in document order
InKindOrder(r, body) ==
  /\ \A i \in DOMAIN r : r[i].element \in Collectable(body) /\ ~r[i].isMainPage
  /\ \A e \in Collectable(body) : \E i \in DOMAIN r : r[i].element = e
  /\ \A i, j \in DOMAIN r :
       i < j =>
         LET ki == KindOfTag(body[r[i].element].tag)
             kj == KindOfTag(body[r[j].element].tag)
         IN  ki < kj \/ (ki = kj /\ r[i].element < r[j].element)

\* C29 as stated: the list the scan builds holds the collected images
\* first, then the stylesheets, the scripts and the linked pages, each
\* kind in document order
C29_ScanOrder ==
  ScanReturned => InKindOrder(call.result, call.args.html)

\* C29 amended: when the page URL ends with .html the list starts with an
\* entry for the page itself; the rest of the list, the whole list
\* otherwise, holds the collected images first, then the stylesheets, the
\* scripts and the linked pages, each kind in document order
C29_ScanOrderAfterPageEntry ==
  ScanReturned =>
    IF EndsWith(call.args.baseUrl, DotHtml)
    THEN /\ call.result # <<>>
         /\ Head(call.result).isMainPage
         /\ Head(call.result).url = call.args.baseUrl
         /\ InKindOrder(Tail(call.result), call.args.html)
    ELSE InKindOrder(call.result, call.args.html)
\* a body in which a script stands before an image and a linked page
\* before a stylesheet was scanned for a page whose URL ends with .html
C29_Witness ==
  /\ ScanReturned
  /\ call.args.baseUrl = UrlPageHtml
  /\ call.args.html = <<ScriptLocal, ImgLocal, LinkCss>>
  /\ Len(call.result) = 4


(***************************************************************************)
(* The name of the resources directory                                     *)
(***************************************************************************)
\* the name of the page file expected for the arguments: host and segments
\* joined by hyphens, ending with .html
ExpectedPageFile(a) ==
  IF EndsWith(JoinedName(a), DotHtml) THEN JoinedName(a) ELSE JoinedName(a) \o DotHtml

\* C30: the name of the resources directory is the name of the page file
\* with its trailing .html replaced by _files, also when the path of the
\* URL holds .html before its last segment
C30_DirNameFromPageName ==
  (call.fn = "resourcesDir" /\ call.returned) =>
    call.result =
      SubSeq(ExpectedPageFile(call.args), 1, Len(ExpectedPageFile(call.args)) - Len(DotHtml))
        \o FilesSuffix


(***************************************************************************)
(* Local paths and the files they name                                     *)
(***************************************************************************)
\* the elements whose attribute in tree t differs from the authored one
Rewritten(t) == {e \in DOMAIN t : t[e].value # html[e].value}
\* the value names a file that exists directly in the resources directory
NamesResourceFile(value) ==
  \E f \in files :
    /\ Len(f) = 2
    /\ f[1] = ExpectedDirName
    /\ value = f[1] \o <<"/">> \o f[2]

\* C31: an attribute that was rewritten, in the tree at any moment and in
\* the page written, holds <name of the resources directory>/<file name>,
\* the file name being the one the download of that same reference wrote;
\* so every local path of the page names a file that exists
C31_LocalPathNamesWrittenFile ==
  /\ \A e \in Rewritten(dom) :
       /\ NamesResourceFile(dom[e].value)
       /\ \E i \in ScannedRefs :
            /\ resources[i].element = e
            /\ i \in wrote
            /\ dom[e].value = ExpectedDirName \o <<"/">> \o outcome[i].filename
            /\ <<ExpectedDirName, outcome[i].filename>> \in files
  /\ pc = "done" => \A e \in Rewritten(saved) : NamesResourceFile(saved[e].value)
\* a page was written with two attributes rewritten
C31_Witness ==
  /\ pc = "done"
  /\ Cardinality(Rewritten(saved)) = 2
  /\ Cardinality(files) >= 2


(***************************************************************************)
(* The depth of a run                                                      *)
(***************************************************************************)
\* the absolute URLs of the references authored in the markup of the page
AuthoredUrls == {AbsoluteUrl(url, html[e].value) : e \in DOMAIN html}
\* the absolute URLs of the references of a linked page
LinkedPageUrls ==
  {AbsoluteUrl(UrlPageHtml, LinkedPageBody[k].value) : k \in DOMAIN LinkedPageBody}

\* C32: a linked page that was downloaded is not scanned: once the tasks
\* run the resources array does not change, and every request of the run
\* is for the page or for a reference authored in the markup of the page,
\* none for a reference of the linked page
C32_DepthOne ==
  /\ [][(pc \in {"listr", "persist"}) => (resources' = resources)]_vars
  /\ [](pc \notin {"access", "pageGet"} /\ ParseURL(url).ok =>
          /\ \A r \in BagToSet(requests) :
               /\ r.url \in {url} \cup AuthoredUrls
               /\ r.url \notin LinkedPageUrls
          /\ Len(resources) <= Len(html) + 1)
\* the linked page was downloaded and the page written
C32_Witness ==
  /\ pc = "done"
  /\ \E i \in ScannedRefs :
       /\ html[resources[i].element] = AnchorHtml
       /\ outcome[i].success
       /\ ResourceFilePath(url, resources[i].url) \in files


(***************************************************************************)
(* The requests for the page                                               *)
(***************************************************************************)
\* the GETs of the run that no reference of the markup accounts for
UnauthoredRequests ==
  {r \in BagToSet(requests) :
     ~(/\ r.by \in ScannedRefs
       /\ r.url = AbsoluteUrl(url, html[resources[r.by].element].value))}

\* C33 as stated: the only request of a run that is for no reference of
\* the markup is the one request of downloadPage for the page
C33_PageRequestedOnce ==
  /\ UnauthoredRequests \subseteq {[url |-> url, by |-> 0]}
  /\ \A r \in BagToSet(requests) : CopiesIn(r, requests) = 1

\* C33 amended: downloadPage requests the page once; when the page URL ends
\* with .html, and only then, the page is requested once more, by the task
\* of the first resource; every other request is for a reference of the
\* markup, and no request is issued twice
C33_PageRequestedOnceOrTwice ==
  /\ UnauthoredRequests \subseteq
       {[url |-> url, by |-> 0]}
         \cup (IF EndsWith(url, DotHtml) THEN {[url |-> url, by |-> 1]} ELSE {})
  /\ \A r \in BagToSet(requests) : CopiesIn(r, requests) = 1
  /\ pc \notin {"access", "failed"} => [url |-> url, by |-> 0] \in BagToSet(requests)
  /\ (pc \in {"persist", "done"} /\ EndsWith(url, DotHtml)) =>
       [url |-> url, by |-> 1] \in BagToSet(requests)
\* the page was requested twice in a run that resolved
C33_Witness ==
  /\ pc = "done"
  /\ url = UrlPageHtml
  /\ UnauthoredRequests = {[url |-> url, by |-> 0], [url |-> url, by |-> 1]}


(***************************************************************************)
(* A resource that was fetched and could not be written                    *)
(***************************************************************************)
\* the resources whose GET was answered 200 and whose write failed
WriteFailed ==
  {i \in DOMAIN resources : outcome[i].settled /\ outcome[i].status = 200 /\ i \notin wrote}

\* C34: a resource fetched with status 200 whose file could not be written
\* has a failed outcome and its authored attribute, in the tree and in the
\* page written; the tasks never reject downloadPage, and when they are
\* all done every resource was requested
C34_WriteFailureIsFailure ==
  /\ [][pc = "listr" => (pc' \in {"listr", "persist"} /\ result'.state = "pending")]_vars
  /\ [](/\ \A i \in WriteFailed :
             /\ ~outcome[i].success
             /\ outcome[i].filename = <<>>
             /\ i \in ScannedRefs =>
                  /\ dom[resources[i].element] = html[resources[i].element]
                  /\ pc = "done" => saved[resources[i].element] = html[resources[i].element]
        /\ (WriteFailed # {} /\ pc \in {"persist", "done"}) =>
             \A j \in DOMAIN resources : RequestsOf(j) = 1 /\ outcome[j].settled)
\* downloadPage resolved after the write of the first resource failed and
\* the second resource was saved
C34_Witness ==
  /\ pc = "done"
  /\ result.state = "resolved"
  /\ WriteFailed = {1}
  /\ 2 \in wrote


(***************************************************************************)
(* Where the files of a run are                                            *)
(***************************************************************************)
\* a name of one file or directory: not empty, no path separator, and
\* neither . nor ..
PlainName(n) ==
  /\ n # <<>>
  /\ \A k \in DOMAIN n : n[k] \notin {"/", "\\"}
  /\ n \notin {<<".">>, <<".", ".">>}

\* C35: every file of a run is the page file, directly in the output
\* directory, or a file directly in the resources directory; no name of a
\* file or directory holds a path separator, also for a resource whose URL
\* has a path of several segments
C35_FilesInPlace ==
  /\ \A f \in files \cup dirs : \A k \in DOMAIN f : PlainName(f[k])
  /\ \A f \in files :
       \/ f = <<ExpectedPageName>>
       \/ Len(f) = 2 /\ f[1] = ExpectedDirName /\ <<f[1]>> \in dirs
  /\ \A i \in wrote \ {0} : ResourceFilePath(url, resources[i].url) \in files
\* the image of /assets/professions/nodejs.png and the page were written
C35_Witness ==
  /\ pc = "done"
  /\ url = UrlHexlet
  /\ 1 \in wrote
  /\ Cardinality(files) = 2


(***************************************************************************)
(* The settling of downloadPage                                            *)
(***************************************************************************)
\* the tasks whose request or write is outstanding
Outstanding == {i \in DOMAIN task : task[i] \in {"get", "write"}}

\* C36: the promise of downloadPage settles once, resolved when the run is
\* done and rejected when it failed; every step of a run is taken while the
\* promise is pending, so that after it settled no request is issued and
\* no file written; and nothing is outstanding when it settles
C36_SettlesOnce ==
  /\ [][/\ result.state = "pending"
        /\ result'.state # "pending" => pc' \in {"done", "failed"}]_vars
  /\ [](/\ pc = "done" <=> result.state = "resolved"
        /\ pc = "failed" <=> result.state = "rejected"
        /\ result.state # "pending" => Outstanding = {})
\* downloadPage was rejected at the write of the page, after two tasks, one
\* of which wrote its file
C36_Witness ==
  /\ result.state = "rejected"
  /\ Len(resources) = 2
  /\ wrote # {}
  /\ 0 \notin wrote


(***************************************************************************)
(* Termination                                                             *)
(***************************************************************************)
\* every request and every call of fs that is outstanding settles in the
\* end, and the tasks Listr holds are started: a step that can be taken is
\* taken
SpecLive == Init /\ [][Next]_vars /\ WF_vars(Next)

\* C37: if every request and every call of the file system settles in the
\* end, every run of downloadPage ends, done or failed
C37_EventuallySettles == <>(pc \in {"done", "failed"})
\* a run has ended after two tasks, one failed and one succeeded
C37_Witness ==
  /\ pc \in {"done", "failed"}
  /\ Len(resources) = 2
  /\ \E i, j \in DOMAIN resources : outcome[i].success /\ ~outcome[j].success /\ outcome[j].settled


(***************************************************************************)
(* A page without local references                                         *)
(***************************************************************************)
\* no element of the body is a reference the scan keeps
NoLocalReferences == \A k \in 1..4 : ScanFrom(html, url, k, 1) = <<>>
\* what holds of any such run: the page is saved as it was received, in
\* the output directory, and downloadPage resolves with its path
PageSavedAsReceived ==
  /\ pc \in {"listr", "persist", "done"} => dirs = {ResourcesDir(url)}
  /\ pc \in {"persist", "done"} => processedHtml = html
  /\ pc = "done" =>
       /\ saved = html
       /\ HtmlFilePath(url) \in files
       /\ result = Resolved(PathString(HtmlFilePath(url)))

====
